---- MODULE Spec2Model ----
(***************************************************************************)
(* MyMultiWorkerDataSource, the user minibatch source of the notebook      *)
(* Manual_How_to_create_user_minibatch_sources.ipynb: ingestion of the     *)
(* sample text into self.data, the sorted identifier list self.sequences,  *)
(* the cursor self.next_seq_idx, the batch-filling loop of                 *)
(* _prepare_nextbatch (one step of the model per trip through the while    *)
(* loop), next_minibatch, stream_infos and the two checkpoint methods.     *)
(***************************************************************************)
EXTENDS Integers, Sequences, FiniteSets, TLC

VARIABLES
    data,          \* self.data: sequence id -> record with 'features' and, when a label was read, 'labels'
    sequences,     \* self.sequences = sorted(self.data)
    next_seq_idx,  \* self.next_seq_idx, the cursor
    f_dim,         \* self.f_dim
    l_dim,         \* self.l_dim
    fsi,           \* self.fsi
    lsi,           \* self.lsi
    pc,            \* "idle": no call in progress; "loop": at the while of _prepare_nextbatch
    frame,         \* arguments and locals of the _prepare_nextbatch call in progress
    last,          \* the most recent call: name, argument, cursor at entry and, once it ended, outcome
    observer,      \* which history is recorded in this behaviour: "sweep" or "resume"
    obs,           \* history: the batches returned since construction under one fixed request
    mark,          \* history: the checkpoint state the training loop holds and the calls made after its capture
    other,         \* the instance of another worker process: its cursor, and whether a call of it hangs
    learner        \* the learner of the notebook on learners: its parameters, their values, and its last call

\* The instance of this worker with the histories of its calls.
own == <<data, sequences, next_seq_idx, f_dim, l_dim, fsi, lsi, pc, frame,
         last, observer, obs, mark>>

vars == <<own, other, learner>>

source == <<data, sequences, next_seq_idx, f_dim, l_dim, fsi, lsi>>

----------------------------------------------------------------------------
(* Bounds of the model.                                                    *)

MaxSeqs == 3       \* sequences in the ingested text
MaxFeat == 2       \* lines (feature tokens) of one sequence
MaxParams == 2     \* parameters of a learner
MaxCount == 2      \* 'count' of inspect_update and inspect_user_learner_update
MaxUpdates == 1    \* calls of update made on a learner outside the inspect functions
MaxSampleCount == 2  \* largest training_sample_count (mbsize); the counts used are its divisors
MaxSamples == 3    \* largest num_samples requested
MaxWorkers == 2    \* largest number_of_workers
MaxLog == 2        \* calls recorded after a checkpoint capture
MaxCalls == 6      \* calls followed in the scenario on the toy data set
MaxLines == 3      \* lines of a text handed to _prepare_data as written

(* The dimensions the notebook constructs the source with.                 *)
input_dim == 1000
num_output_classes == 5

----------------------------------------------------------------------------
(* Python helpers.                                                         *)

Max(a, b) == IF a >= b THEN a ELSE b

Range(s) == {s[i] : i \in 1..Len(s)}

\* list[i] with Python's index rules: 0-based, negative indices count from
\* the end, anything else raises IndexError.
PyItem(list, i) ==
    IF 0 <= i /\ i < Len(list) THEN [ok |-> TRUE, item |-> list[i + 1]]
    ELSE IF 0 - Len(list) <= i /\ i < 0 THEN [ok |-> TRUE, item |-> list[Len(list) + i + 1]]
    ELSE [ok |-> FALSE, item |-> 0]

Least(S) == CHOOSE x \in S : \A y \in S : x <= y

\* The identifiers in descending order.
RECURSIVE sortedDescending(_)
sortedDescending(S) ==
    IF S = {} THEN <<>>
    ELSE sortedDescending(S \ {Least(S)}) \o <<Least(S)>>

RECURSIVE sorted(_)
sorted(S) == IF S = {} THEN <<>> ELSE <<Least(S)>> \o sorted(S \ {Least(S)})

----------------------------------------------------------------------------
(* The ingested text.  A line is its sequence id, its feature token and,   *)
(* when the '|y' field is present, its label.                              *)

\* The lines of one sequence in the shape of sample_data: the first line
\* carries the label, every line one feature token.
RECURSIVE SequenceLines(_, _, _)
SequenceLines(seq_id, k, n) ==
    IF k > n THEN <<>>
    ELSE <<[seq_id |-> seq_id, vocab_idx |-> k - 1, has_y |-> (k = 1), y |-> seq_id]>>
         \o SequenceLines(seq_id, k + 1, n)

\* Text in the shape of sample_data: sequences 0, 1, ... in order, lens[i]
\* lines for sequence i-1.
RECURSIVE sample_data(_, _)
sample_data(lens, i) ==
    IF i > Len(lens) THEN <<>>
    ELSE SequenceLines(i - 1, 1, lens[i]) \o sample_data(lens, i + 1)

SampleShapes == UNION {[1..n -> 1..MaxFeat] : n \in 0..MaxSeqs}

\* Every line starts the record of its sequence anew.
RECURSIVE PrepareDataOverwriting(_, _)
PrepareDataOverwriting(lines, d) ==
    IF lines = <<>> THEN d
    ELSE LET line == Head(lines)
             seq_id == line.seq_id
             rec == IF line.has_y
                    THEN [features |-> <<line.vocab_idx>>, labels |-> <<line.y>>]
                    ELSE [features |-> <<line.vocab_idx>>]
             d1 == [id \in (DOMAIN d) \cup {seq_id} |-> IF id = seq_id THEN rec ELSE d[id]]
         IN PrepareDataOverwriting(Tail(lines), d1)

RECURSIVE PrepareData(_, _)
PrepareData(lines, d) ==
    IF lines = <<>> THEN d
    ELSE LET line == Head(lines)
             seq_id == line.seq_id
             d1 == IF seq_id \in DOMAIN d THEN d
                   ELSE d @@ (seq_id :> [features |-> <<>>])
             d2 == [d1 EXCEPT ![seq_id].features = Append(@, line.vocab_idx)]
             d3 == IF line.has_y
                   THEN [d2 EXCEPT ![seq_id] =
                            [features |-> d2[seq_id].features, labels |-> <<line.y>>]]
                   ELSE d2
         IN PrepareData(Tail(lines), d3)

----------------------------------------------------------------------------
(* The text as _prepare_data reads it.  A non-blank line is modelled by    *)
(* what the splits of lines 279-280 make of it: the piece before the first *)
(* '|' and the '|'-separated pieces after it (none: the line has no '|'),  *)
(* each piece being its words.  Of a word the model keeps whether the part *)
(* before its first ':' is an integer literal, that integer, and the rest  *)
(* of the word.                                                            *)

Num(n) == [isint |-> TRUE, n |-> n, rest |-> ""]       \* the word "n"
Pair(n) == [isint |-> TRUE, n |-> n, rest |-> ":1"]    \* the word "n:1"
Txt(t) == [isint |-> FALSE, n |-> 0, rest |-> t]       \* a word that is no number

Line(seq_id, fields) == [seq_id |-> seq_id, fields |-> fields]

\* A line that line.strip() leaves empty.
Blank == Line(Txt(""), <<>>)

X(n) == <<Txt("x"), Pair(n)>>

Y(row) == <<Txt("y")>> \o [i \in 1..Len(row) |-> Num(row[i])]

\* sample_data, lines 95-109.
ToyDataSet ==
    << Line(Num(0), <<X(560), Y(<<1, 0, 0, 0, 0>>)>>),
       Line(Num(0), <<X(0)>>),
       Line(Num(0), <<X(0)>>),
       Line(Num(1), <<X(560), Y(<<0, 1, 0, 0, 0>>)>>),
       Line(Num(1), <<X(0)>>),
       Line(Num(1), <<X(0)>>),
       Line(Num(1), <<X(424)>>),
       Line(Num(2), <<X(160), Y(<<0, 0, 1, 0, 0>>)>>),
       Line(Num(2), <<X(5)>>),
       Line(Num(2), <<X(6)>>),
       Line(Num(3), <<X(460), Y(<<0, 0, 0, 1, 0>>)>>),
       Line(Num(3), <<X(3)>>),
       Line(Num(3), <<X(3)>>),
       Line(Num(3), <<X(425)>>),
       Blank >>

\* int(word) and np.float32 of a word succeed on a bare integer literal.
IsNumber(word) == word.isint /\ word.rest = ""

\* Lines 279-293 on one line: the exception raised, or the line as
\* PrepareData takes it.
ParseLine(line) ==
    LET fail(e) == [raised |-> e, seq_id |-> 0, vocab_idx |-> 0, has_y |-> FALSE, y |-> <<>>]
    IN IF line.fields = <<>> THEN fail("ValueError")                 \* 279: nothing to unpack
       ELSE IF ~IsNumber(line.seq_id) THEN fail("ValueError")        \* 281: int(seq_id)
       ELSE IF Len(line.fields[1]) < 2 THEN fail("IndexError")       \* 288: features[1]
       ELSE IF ~line.fields[1][2].isint THEN fail("ValueError")      \* 288: int(...split(":")[0])
       ELSE IF /\ Len(line.fields) = 2                               \* 292
               /\ \E i \in 2..Len(line.fields[2]) : ~IsNumber(line.fields[2][i])
       THEN fail("ValueError")                                       \* 293: dtype=np.float32
       ELSE [raised |-> "none",
             seq_id |-> line.seq_id.n,
             vocab_idx |-> line.fields[1][2].n,
             has_y |-> Len(line.fields) = 2,
             y |-> IF Len(line.fields) = 2
                   THEN [i \in 1..(Len(line.fields[2]) - 1) |-> line.fields[2][i + 1].n]
                   ELSE <<>>]

\* The loop of line 275: blank lines are skipped, the first exception ends
\* the loop, otherwise every line is handed on.
RECURSIVE ParseLines(_)
ParseLines(text) ==
    IF text = <<>> THEN [raised |-> "none", lines |-> <<>>]
    ELSE IF Head(text) = Blank THEN ParseLines(Tail(text))          \* 277-278
    ELSE LET line == ParseLine(Head(text))
             rest == ParseLines(Tail(text))
         IN IF line.raised # "none" THEN [raised |-> line.raised, lines |-> <<>>]
            ELSE IF rest.raised # "none" THEN rest
            ELSE [raised |-> "none", lines |-> <<line>> \o rest.lines]

StreamInformation(name, stream_id, storage, shape) ==
    [name |-> name, stream_id |-> stream_id, storage |-> storage, shape |-> shape]

MinibatchData(value, num_sequences, num_samples, sweep_end) ==
    [value |-> value, num_sequences |-> num_sequences,
     num_samples |-> num_samples, sweep_end |-> sweep_end]

----------------------------------------------------------------------------
(* Records of the model.                                                   *)

NoFrame == [active |-> FALSE]

\* What last holds for a call without arguments and for a call that
\* returned None or has not returned.  arg and value are records for every
\* call, so that the records of two calls can be compared.
None == [none |-> TRUE]

\* What a call remembers of the call before it: a restore_from_checkpoint
\* with its argument, or nothing.
NoAfter == [op |-> "other", arg |-> None]

After(call) ==
    IF call.op = "restore_from_checkpoint" THEN [op |-> call.op, arg |-> call.arg]
    ELSE NoAfter

NoObs == [phase |-> "off", num_samples |-> 0, number_of_workers |-> 0,
          worker_rank |-> 0, returned |-> <<>>, pre_wrap |-> 0,
          calls |-> 0, consumed |-> 0, wraps |-> 0, flags |-> 0, wrapped_calls |-> 0]

\* No other instance is followed.
NoOther == [active |-> FALSE, next_seq_idx |-> 0, hung |-> FALSE]

\* No learner is followed.
NoLearner == [kind |-> "none"]

NoMark == [phase |-> "none", state |-> <<>>, pre |-> <<>>, log |-> <<>>, pos |-> 0]

\* The locals of _prepare_nextbatch at its first line.  seq_ids, pre_wrap,
\* wraps and examined are history: the ids appended, the number of sequences
\* in the batch when the cursor first wrapped (-1: no wrap), the number of
\* times the cursor wrapped, and the position of the list whose sequence the
\* last trip through the loop looked at (-1: no trip yet).
NewFrame(num_samples, number_of_workers, worker_rank) ==
    [active |-> TRUE,
     num_samples |-> num_samples,
     number_of_workers |-> number_of_workers,
     worker_rank |-> worker_rank,
     features |-> <<>>, labels |-> <<>>,
     sweep_end |-> FALSE,
     f_sample_count |-> 0, l_sample_count |-> 0,
     seq_ids |-> <<>>, pre_wrap |-> -1, wraps |-> 0, examined |-> -1]

----------------------------------------------------------------------------
(* _prepare_nextbatch                                                      *)

\* while max(f_sample_count, l_sample_count) < num_samples
LoopCondition(f) == Max(f.f_sample_count, f.l_sample_count) < f.num_samples

\* The end test one position early.
AtSweepEndEarly(idx) == idx = Len(sequences) - 1

\* if self.next_seq_idx == len(self.sequences)
AtSweepEnd(idx) == idx = Len(sequences)

\* The wrap restarts at the second sequence.
WrappedIdxSkippingFirst(idx) == IF AtSweepEnd(idx) THEN 1 ELSE idx

\* The cursor after the sweep-end test.
WrappedIdx(idx) == IF AtSweepEnd(idx) THEN 0 ELSE idx

\* The sequence before the one at the cursor.
SeqIdBefore(idx) ==
    LET inner == PyItem(sequences, idx - 1)
    IN IF inner.ok THEN PyItem(sequences, inner.item) ELSE inner

\* seq_id = self.sequences[self.sequences[self.next_seq_idx]]
SeqIdAt(idx) ==
    LET inner == PyItem(sequences, idx)
    IN IF inner.ok THEN PyItem(sequences, inner.item) ELSE inner

\* The loop without the worker test: every sequence is taken.
BelongsToAnyWorker(seq_id, number_of_workers, worker_rank) == TRUE

\* not ((seq_id % number_of_workers) != worker_rank)
BelongsToWorker(seq_id, number_of_workers, worker_rank) ==
    (seq_id % number_of_workers) = worker_rank

\* The overflow test on the smaller of the two counts.
OverflowsWhenBothExceed(f, feature_data, label_data) ==
    /\ (f.features # <<>> \/ f.labels # <<>>)
    /\ LET fc == f.f_sample_count + Len(feature_data)
           lc == f.l_sample_count + Len(label_data)
       IN (IF fc <= lc THEN fc ELSE lc) > f.num_samples

\* The overflow test with >= : a sequence that fills the request exactly is
\* left for the next batch.
OverflowsAtLimit(f, feature_data, label_data) ==
    /\ (f.features # <<>> \/ f.labels # <<>>)
    /\ Max(f.f_sample_count + Len(feature_data),
           f.l_sample_count + Len(label_data)) >= f.num_samples

\* The overflow test without the test for an empty batch.
OverflowsAlsoWhenEmpty(f, feature_data, label_data) ==
    Max(f.f_sample_count + Len(feature_data),
        f.l_sample_count + Len(label_data)) > f.num_samples

\* (features or labels) and max(f_sample_count+len(feature_data),
\*                              l_sample_count+len(label_data)) > num_samples
Overflows(f, feature_data, label_data) ==
    /\ (f.features # <<>> \/ f.labels # <<>>)
    /\ Max(f.f_sample_count + Len(feature_data),
           f.l_sample_count + Len(label_data)) > f.num_samples

\* The cursor moves on by two.
AdvancedIdxByTwo(idx) == idx + 2

\* self.next_seq_idx += 1
AdvancedIdx(idx) == idx + 1

\* The append counts one sample for the sequence, whatever its length.
AppendedCountingOne(f, seq_id, feature_data, label_data) ==
    [f EXCEPT !.f_sample_count = @ + 1,
              !.features = Append(@, feature_data),
              !.l_sample_count = @ + Len(label_data),
              !.labels = Append(@, label_data),
              !.seq_ids = Append(@, seq_id)]

\* The append takes the sweep flag down again.
AppendedClearingFlag(f, seq_id, feature_data, label_data) ==
    [f EXCEPT !.f_sample_count = @ + Len(feature_data),
              !.features = Append(@, feature_data),
              !.l_sample_count = @ + Len(label_data),
              !.labels = Append(@, label_data),
              !.seq_ids = Append(@, seq_id),
              !.sweep_end = FALSE]

\* Lines 321-325: the locals after the sequence was added to the batch.
Appended(f, seq_id, feature_data, label_data) ==
    [f EXCEPT !.f_sample_count = @ + Len(feature_data),
              !.features = Append(@, feature_data),
              !.l_sample_count = @ + Len(label_data),
              !.labels = Append(@, label_data),
              !.seq_ids = Append(@, seq_id)]

\* One evaluation of the while condition and, when it holds, one trip
\* through the loop body, from cursor idx and locals f.  ctl is where
\* control goes: "return" (condition false), "break", "continue", "next"
\* (the sequence was appended), or the exception raised.
PrepareNextbatchIter(idx, f) ==
    IF ~LoopCondition(f) THEN [ctl |-> "return", idx |-> idx, f |-> f]
    ELSE
      LET idx1 == WrappedIdx(idx)
          f1 == IF AtSweepEnd(idx)
                THEN [f EXCEPT !.sweep_end = TRUE,
                               !.pre_wrap = IF @ = -1 THEN Len(f.seq_ids) ELSE @,
                               !.wraps = @ + 1,
                               !.examined = idx1]
                ELSE [f EXCEPT !.examined = idx1]
          at == SeqIdAt(idx1)
      IN IF ~at.ok THEN [ctl |-> "IndexError", idx |-> idx1, f |-> f1]
         ELSE
           LET seq_id == at.item IN
           IF ~BelongsToWorker(seq_id, f.number_of_workers, f.worker_rank)
           THEN [ctl |-> "continue", idx |-> idx1, f |-> f1]
           ELSE IF "labels" \notin DOMAIN data[seq_id]
           THEN [ctl |-> "KeyError", idx |-> idx1, f |-> f1]
           ELSE
             LET feature_data == data[seq_id].features
                 label_data == data[seq_id].labels
             IN IF Overflows(f1, feature_data, label_data)
                THEN [ctl |-> "break", idx |-> idx1, f |-> f1]
                ELSE [ctl |-> "next", idx |-> AdvancedIdx(idx1),
                      f |-> Appended(f1, seq_id, feature_data, label_data)]

\* The call is at the loop head in a state that the next trip through the
\* loop leaves exactly as it is: the loop can never be left.
Spinning ==
    /\ pc = "loop"
    /\ LET it == PrepareNextbatchIter(next_seq_idx, frame)
       IN it.ctl = "continue" /\ it.idx = next_seq_idx /\ it.f = frame

\* The request of a call, as recorded in last and in the histories.
Request(f) == [num_samples |-> f.num_samples,
               number_of_workers |-> f.number_of_workers,
               worker_rank |-> f.worker_rank]

\* What next_minibatch returns from the locals of _prepare_nextbatch.
MinibatchOf(f) ==
    [features |-> MinibatchData(f.features, Len(f.features), f.f_sample_count, f.sweep_end),
     labels |-> MinibatchData(f.labels, Len(f.features), f.l_sample_count, f.sweep_end)]

\* The checkpoint carries the dimensions besides the cursor.
CheckpointStateWithDims(idx) == [next_seq_idx |-> idx, f_dim |-> f_dim, l_dim |-> l_dim]

\* The checkpoint names the position after the cursor.
CheckpointStateOffByOne(idx) == [next_seq_idx |-> idx + 1]

\* get_checkpoint_state: return {'next_seq_idx': self.next_seq_idx}
CheckpointState(idx) == [next_seq_idx |-> idx]

\* The restore resumes one position after the checkpointed one.
RestoredIdxOffByOne(state) == state.next_seq_idx + 1

\* restore_from_checkpoint: self.next_seq_idx = state['next_seq_idx']
RestoredIdx(state) == state.next_seq_idx

\* The descriptors in the other order.
StreamInfosSwapped == <<lsi, fsi>>

\* stream_infos: return [self.fsi, self.lsi]
StreamInfosValue == <<fsi, lsi>>

\* The loop takes the identifier at the head of the list off the list.
PrepareNextbatchPops ==
    /\ sequences' = IF sequences = <<>> THEN sequences ELSE Tail(sequences)
    /\ UNCHANGED <<data, f_dim, l_dim, fsi, lsi>>

\* _prepare_nextbatch and the rest of next_minibatch assign to no attribute
\* of self but next_seq_idx, and change no object an attribute holds.
PrepareNextbatchKeeps == UNCHANGED <<data, sequences, f_dim, l_dim, fsi, lsi>>

\* The positions a checkpoint handed to restore_from_checkpoint may name.
RestoreValues == -1..(MaxSeqs + 1)

----------------------------------------------------------------------------
(* Histories.  They record what the calls did and are read by no call.     *)

\* obs at the entry of a next_minibatch call: recording goes on while every
\* call since construction makes the same request; in the scenario, while
\* the first call asks one worker for 7 samples and the calls after it for
\* 20, for MaxCalls calls.
ObsAtCall(num_samples, number_of_workers, worker_rank) ==
    IF obs.phase = "scenario"
    THEN IF /\ obs.calls < MaxCalls
            /\ number_of_workers = 1
            /\ worker_rank = 0
            /\ num_samples = IF obs.calls = 0 THEN 7 ELSE 20
         THEN obs
         ELSE NoObs
    ELSE IF obs.phase = "fresh"
    THEN [NoObs EXCEPT !.phase = "run", !.num_samples = num_samples,
                       !.number_of_workers = number_of_workers,
                       !.worker_rank = worker_rank]
    ELSE IF /\ obs.phase = "run"
            /\ obs.num_samples = num_samples
            /\ obs.number_of_workers = number_of_workers
            /\ obs.worker_rank = worker_rank
    THEN obs
    ELSE NoObs

\* obs when the call returns a batch: the batch is appended, and the first
\* batch whose sweep flag is set closes the record; in the scenario the
\* call is counted with its feature samples, its wraps and its flag.
ObsAtReturn(f) ==
    IF obs.phase = "scenario"
    THEN [obs EXCEPT !.calls = @ + 1,
                     !.consumed = @ + f.f_sample_count,
                     !.wraps = @ + f.wraps,
                     !.flags = @ + (IF f.sweep_end THEN 1 ELSE 0),
                     !.wrapped_calls = @ + (IF f.wraps >= 1 THEN 1 ELSE 0)]
    ELSE IF obs.phase # "run" THEN obs
    ELSE [obs EXCEPT !.returned = @ \o f.seq_ids,
                     !.phase = IF f.sweep_end THEN "done" ELSE "run",
                     !.pre_wrap = IF f.sweep_end THEN Len(obs.returned) + f.pre_wrap ELSE 0]

LogEntry(f, raised, value, idx) ==
    [request |-> Request(f), raised |-> raised, value |-> value, after |-> idx]

\* Whether the call about to be made is one the history follows: after a
\* capture while the record has room and the request is the one of the
\* calls recorded so far, after the restore of the held checkpoint while the
\* call repeats the request recorded at the same rank.
MarkAtCall(request) ==
    IF /\ mark.phase = "armed"
       /\ Len(mark.log) < MaxLog
       /\ (mark.log = <<>> \/ mark.log[1].request = request)
    THEN mark
    ELSE IF /\ mark.phase = "replay"
            /\ mark.pos < Len(mark.log)
            /\ mark.log[mark.pos + 1].request = request
    THEN mark
    ELSE NoMark

\* mark when a followed call ends (batch or exception) leaving the cursor
\* at idx: it is recorded after a capture and counted after the restore.
MarkAtReturn(f, raised, value, idx) ==
    IF mark.phase = "armed"
    THEN [mark EXCEPT !.log = Append(@, LogEntry(f, raised, value, idx))]
    ELSE IF mark.phase = "replay"
    THEN [mark EXCEPT !.pos = @ + 1]
    ELSE mark

\* mark when restore_from_checkpoint(state) is called: restoring the held
\* checkpoint starts the comparison with the recorded calls.
MarkAtRestore(state) ==
    IF mark.phase = "armed" /\ state = mark.state
    THEN [mark EXCEPT !.phase = "replay"]
    ELSE NoMark

----------------------------------------------------------------------------
(* Construction: __init__ with the text ingested by _prepare_data.         *)

Instance(lines) ==
    /\ f_dim = input_dim
    /\ l_dim = num_output_classes
    /\ data = PrepareData(lines, <<>>)
    /\ fsi = StreamInformation("features", 0, "sparse", <<input_dim>>)
    /\ lsi = StreamInformation("labels", 1, "dense", <<num_output_classes>>)
    /\ sequences = sorted(DOMAIN data)
    /\ next_seq_idx = 0
    /\ pc = "idle"
    /\ frame = NoFrame
    /\ mark = NoMark

\* The call of __init__ as last records it: the text ingested and the
\* exception _prepare_data raised on it.
InitCall(text, raised) ==
    [op |-> "__init__", arg |-> [sample_data |-> text], before |-> 0, raised |-> raised,
     value |-> None, seq_ids |-> <<>>, pre_wrap |-> -1, after |-> NoAfter]

\* The source constructed from lines that _prepare_data accepts.
Constructed(lines) ==
    /\ Instance(lines)
    /\ last = InitCall(<<>>, "none")

\* __init__ raised at line 258: there is no instance to call.
NoInstance ==
    /\ f_dim = input_dim
    /\ l_dim = num_output_classes
    /\ data = <<>>
    /\ fsi = <<>>
    /\ lsi = <<>>
    /\ sequences = <<>>
    /\ next_seq_idx = 0
    /\ pc = "failed"
    /\ frame = NoFrame
    /\ mark = NoMark

\* __init__ on a text as written.
ConstructedFrom(text) ==
    LET parsed == ParseLines(text)
    IN /\ last = InitCall(text, parsed.raised)
       /\ IF parsed.raised = "none" THEN Instance(parsed.lines) ELSE NoInstance

Init ==
    /\ \E lens \in SampleShapes : Constructed(sample_data(lens, 1))
    /\ observer \in {"sweep", "resume"}
    /\ obs = IF observer = "sweep" THEN [NoObs EXCEPT !.phase = "fresh"] ELSE NoObs
    /\ other = NoOther
    /\ learner = NoLearner

----------------------------------------------------------------------------
(* Operations.                                                             *)

\* next_minibatch(num_samples, number_of_workers, worker_rank, device) up
\* to the first evaluation of the while condition of _prepare_nextbatch.
NextMinibatch(num_samples, number_of_workers, worker_rank) ==
    /\ pc = "idle"
    /\ pc' = "loop"
    /\ frame' = NewFrame(num_samples, number_of_workers, worker_rank)
    /\ last' = [op |-> "next_minibatch",
                arg |-> Request(NewFrame(num_samples, number_of_workers, worker_rank)),
                before |-> next_seq_idx, raised |-> "pending", value |-> None,
                seq_ids |-> <<>>, pre_wrap |-> -1, after |-> After(last)]
    /\ obs' = ObsAtCall(num_samples, number_of_workers, worker_rank)
    /\ mark' = MarkAtCall(Request(NewFrame(num_samples, number_of_workers, worker_rank)))
    /\ UNCHANGED <<source, observer, other, learner>>

\* One trip through the while loop of _prepare_nextbatch; when the loop is
\* left, the rest of next_minibatch up to its return.
PrepareNextbatchStep ==
    /\ pc = "loop"
    /\ LET it == PrepareNextbatchIter(next_seq_idx, frame)
           goes_on == it.ctl \in {"next", "continue"}
           returns == it.ctl \in {"return", "break"}
           raised == IF returns THEN "none" ELSE it.ctl
           value == IF returns THEN MinibatchOf(it.f) ELSE None
       IN /\ next_seq_idx' = it.idx
          /\ pc' = IF goes_on THEN "loop" ELSE "idle"
          /\ frame' = IF goes_on THEN it.f ELSE NoFrame
          /\ last' = IF goes_on THEN last
                     ELSE [last EXCEPT !.raised = raised, !.value = value,
                                       !.seq_ids = it.f.seq_ids,
                                       !.pre_wrap = it.f.pre_wrap]
          /\ obs' = IF goes_on THEN obs
                    ELSE IF returns THEN ObsAtReturn(it.f)
                    ELSE NoObs
          /\ mark' = IF goes_on THEN mark
                     ELSE MarkAtReturn(it.f, raised, value, it.idx)
    /\ PrepareNextbatchKeeps
    /\ UNCHANGED <<observer, other, learner>>

\* stream_infos()
StreamInfos ==
    /\ pc = "idle"
    /\ last' = [op |-> "stream_infos", arg |-> None, before |-> next_seq_idx,
                raised |-> "none", value |-> [list |-> StreamInfosValue],
                seq_ids |-> <<>>, pre_wrap |-> -1, after |-> NoAfter]
    /\ UNCHANGED <<source, pc, frame, observer, obs, mark, other, learner>>

\* get_checkpoint_state()
GetCheckpointState ==
    /\ pc = "idle"
    /\ last' = [op |-> "get_checkpoint_state", arg |-> None, before |-> next_seq_idx,
                raised |-> "none", value |-> CheckpointState(next_seq_idx),
                seq_ids |-> <<>>, pre_wrap |-> -1, after |-> NoAfter]
    /\ mark' = IF observer = "resume"
               THEN [NoMark EXCEPT !.phase = "armed", !.pre = source,
                                   !.state = CheckpointState(next_seq_idx)]
               ELSE mark
    /\ UNCHANGED <<source, pc, frame, observer, obs, other, learner>>

\* restore_from_checkpoint(state)
RestoreFromCheckpoint(state) ==
    /\ pc = "idle"
    /\ next_seq_idx' = RestoredIdx(state)
    /\ last' = [op |-> "restore_from_checkpoint", arg |-> state, before |-> next_seq_idx,
                raised |-> "none", value |-> None,
                seq_ids |-> <<>>, pre_wrap |-> -1, after |-> NoAfter]
    /\ obs' = NoObs
    /\ mark' = MarkAtRestore(state)
    /\ UNCHANGED <<data, sequences, f_dim, l_dim, fsi, lsi, pc, frame, observer, other, learner>>

Next ==
    \/ \E num_samples \in 1..MaxSamples, number_of_workers \in 1..MaxWorkers :
         \E worker_rank \in 0..(number_of_workers - 1) :
            NextMinibatch(num_samples, number_of_workers, worker_rank)
    \/ PrepareNextbatchStep
    \/ StreamInfos
    \/ GetCheckpointState
    \/ \E v \in RestoreValues : RestoreFromCheckpoint([next_seq_idx |-> v])

Spec == Init /\ [][Next]_vars

----------------------------------------------------------------------------
(* The source on the toy data set of the notebook, asked for 7 and for 20  *)
(* samples.                                                                *)

ExampleRequests == {7, 20}

InitExample ==
    /\ ConstructedFrom(ToyDataSet)
    /\ observer = "scenario"
    /\ obs = [NoObs EXCEPT !.phase = "scenario"]
    /\ other = NoOther
    /\ learner = NoLearner

NextExample ==
    \/ \E num_samples \in ExampleRequests, number_of_workers \in 1..MaxWorkers :
         \E worker_rank \in 0..(number_of_workers - 1) :
            NextMinibatch(num_samples, number_of_workers, worker_rank)
    \/ PrepareNextbatchStep
    \/ StreamInfos
    \/ GetCheckpointState
    \/ \E v \in RestoreValues : RestoreFromCheckpoint([next_seq_idx |-> v])

SpecExample == InitExample /\ [][NextExample]_vars

----------------------------------------------------------------------------
(* The source on texts as written, well formed or not.                     *)

\* A label row of num_output_classes numbers for class c.
OneHot(c) == [i \in 1..num_output_classes |-> IF i = c + 1 THEN 1 ELSE 0]

\* The lines a text is made of: lines in the format of sample_data for
\* sequences 0, 1 and 2, with and without label, and lines that depart from
\* the format in one place each.
IngestLines ==
    { Line(Num(0), <<X(1), Y(OneHot(0))>>),
      Line(Num(0), <<X(0)>>),
      Line(Num(1), <<X(1), Y(OneHot(1))>>),
      Line(Num(2), <<X(1), Y(OneHot(2))>>),
      Blank,
      Line(Txt("0 x 0:1"), <<>>),                            \* no '|'
      Line(Txt("a"), <<X(0)>>),                              \* the id is no integer
      Line(Num(0), << <<Txt("x")>> >>),                      \* no feature word
      Line(Num(0), << <<Txt("x"), Txt("a:1")>> >>),          \* the index is no integer
      Line(Num(0), << <<Txt("z"), Pair(0)>> >>),             \* the field is not named x
      Line(Num(0), << <<Txt("x"), Num(0)>> >>),              \* the index without ':1'
      Line(Num(0), <<X(0), Y(OneHot(0)), Y(OneHot(1))>>),    \* a third field
      Line(Num(0), <<X(0), <<Txt("y"), Txt("a")>> >>),       \* the label is no number
      Line(Num(0), <<X(0), Y(<<1>>)>>) }                     \* the label has one entry

IngestTexts == UNION {[1..n -> IngestLines] : n \in 0..MaxLines}

InitIngest ==
    /\ \E text \in IngestTexts : ConstructedFrom(text)
    /\ observer = "ingest"
    /\ obs = NoObs
    /\ other = NoOther
    /\ learner = NoLearner

SpecIngest == InitIngest /\ [][Next]_vars

----------------------------------------------------------------------------
(* Two worker processes, each with the instance it constructed from the    *)
(* toy data set.  The index of the other instance equals the index of this  *)
(* one, being ingested from the same text and never assigned again; of the *)
(* other instance the model keeps what its calls assign, the cursor.       *)

\* _prepare_nextbatch from its first line to its end: the while loop run
\* trip by trip from cursor idx and locals f.  ctl is "spin" when a trip
\* leaves cursor and locals as they are, so that the loop is never left.
RECURSIVE PrepareNextbatch(_, _)
PrepareNextbatch(idx, f) ==
    LET it == PrepareNextbatchIter(idx, f)
    IN IF it.ctl = "next" THEN PrepareNextbatch(it.idx, it.f)
       ELSE IF it.ctl = "continue"
       THEN IF it.idx = idx /\ it.f = f THEN [ctl |-> "spin", idx |-> idx, f |-> f]
            ELSE PrepareNextbatch(it.idx, it.f)
       ELSE it

\* restore_from_checkpoint of the other instance, the cursor being shared
\* by the instances of the class.
OtherRestoreSharedCursor(state) ==
    /\ other.active
    /\ ~other.hung
    /\ next_seq_idx' = RestoredIdx(state)
    /\ UNCHANGED <<data, sequences, f_dim, l_dim, fsi, lsi, pc, frame,
                   last, observer, obs, mark, other, learner>>

\* restore_from_checkpoint(state) on the other instance.
OtherRestoreFromCheckpoint(state) ==
    /\ other.active
    /\ ~other.hung
    /\ other' = [other EXCEPT !.next_seq_idx = RestoredIdx(state)]
    /\ UNCHANGED <<own, learner>>

\* next_minibatch(num_samples, number_of_workers, worker_rank, device) on
\* the other instance, from entry to return, exception or hanging loop.
OtherNextMinibatch(num_samples, number_of_workers, worker_rank) ==
    /\ other.active
    /\ ~other.hung
    /\ LET run == PrepareNextbatch(other.next_seq_idx,
                                   NewFrame(num_samples, number_of_workers, worker_rank))
       IN other' = [other EXCEPT !.next_seq_idx = run.idx,
                                 !.hung = (run.ctl = "spin")]
    /\ UNCHANGED <<own, learner>>

InitWorkers ==
    /\ ConstructedFrom(ToyDataSet)
    /\ observer = "workers"
    /\ obs = NoObs
    /\ other = [NoOther EXCEPT !.active = TRUE]
    /\ learner = NoLearner

NextWorkers ==
    \/ NextExample
    \/ \E num_samples \in ExampleRequests, number_of_workers \in 1..MaxWorkers :
         \E worker_rank \in 0..(number_of_workers - 1) :
            OtherNextMinibatch(num_samples, number_of_workers, worker_rank)
    \/ \E v \in RestoreValues : OtherRestoreFromCheckpoint([next_seq_idx |-> v])

SpecWorkers == InitWorkers /\ [][NextWorkers]_vars

----------------------------------------------------------------------------
(* The learners of the notebook on learners: the user learner MySgd, the   *)
(* built-in sgd learner as the notebook documents it, and the two          *)
(* functions that inspect the update a learner makes.                      *)
(*                                                                         *)
(* A parameter is named by its position in the list the learner was built  *)
(* on.  Its value is a tensor of its shape; the operations are elementwise *)
(* and start from tensors of equal elements, so one number stands for the  *)
(* tensor.  The number is in units of lr / MaxSampleCount, lr being the    *)
(* constant learning rate of the schedule, so that the division            *)
(* lr / training_sample_count is exact for the sample counts drawn.        *)

\* The shapes (2,) and (4,) of the bias parameters of z.
Shapes == {<<2>>, <<4>>}

\* The values the parameters hold when the learner is built, and the
\* elements of the gradients passed to update.
InitValues == {0, 1}
Gradients == {0, 1}

SampleCounts == {c \in 1..MaxSampleCount : MaxSampleCount % c = 0}

\* eta = lr / self.sample_count_input, in units of lr / MaxSampleCount.
Eta(training_sample_count) == MaxSampleCount \div training_sample_count

NoCall == [op |-> "none", pre |-> <<>>, items |-> <<>>, sample_count |-> 0,
           count |-> 0, ret_values |-> <<>>]

\* self.new_parameter after the first k trips of the for loop of
\* MySgd.__init__: a dictionary from shape to the expression
\* param - eta * self.grad_input[p_shape], which is recorded as the
\* parameter the expression reads.
RECURSIVE NewParameter(_, _)
NewParameter(parameters, k) ==
    IF k = 0 THEN <<>>
    ELSE LET before == NewParameter(parameters, k - 1)
             p_shape == parameters[k]
         IN [s \in (DOMAIN before) \cup {p_shape} |->
                IF s = p_shape THEN k ELSE before[s]]

\* MySgd(parameters, lr_schedule), the parameters holding 'value'.
MySgd(parameters, value) ==
    [kind |-> "MySgd", parameters |-> parameters, value |-> value,
     new_parameter |-> NewParameter(parameters, Len(parameters)),
     updates |-> 0, call |-> NoCall]

\* C.sgd(parameters, lr_schedule) with a schedule per minibatch.
Sgd(parameters, value) ==
    [kind |-> "sgd", parameters |-> parameters, value |-> value,
     new_parameter |-> <<>>, updates |-> 0, call |-> NoCall]

\* MySgd.update from the k-th item of gradient_values.items() on: new_p is
\* evaluated on the current values and the result is set as the value of p.
RECURSIVE MySgdUpdate(_, _, _, _, _)
MySgdUpdate(self, value, items, training_sample_count, k) ==
    IF k > Len(items) THEN value
    ELSE LET p == items[k].p
             g == items[k].g
             new_p == self.new_parameter[self.parameters[p]]
             result == value[new_p] - Eta(training_sample_count) * g
         IN MySgdUpdate(self, [value EXCEPT ![p] = result], items,
                        training_sample_count, k + 1)

\* update of the built-in sgd learner with a schedule per minibatch:
\* parameter = old_parameter - learning_rate * gradient, the learning rate
\* divided by the minibatch size.
SgdUpdate(value, items, training_sample_count) ==
    [p \in DOMAIN value |->
        IF \E k \in 1..Len(items) : items[k].p = p
        THEN LET k == CHOOSE k \in 1..Len(items) : items[k].p = p
             IN value[p] - Eta(training_sample_count) * items[k].g
        ELSE value[p]]

\* learner.update(gradient_values, training_sample_count)
LearnerUpdate(self, value, items, training_sample_count) ==
    IF self.kind = "MySgd"
    THEN MySgdUpdate(self, value, items, training_sample_count, 1)
    ELSE SgdUpdate(value, items, training_sample_count)

\* for i in range(count): learner.update(updates, mbsize)
RECURSIVE UpdatedTimes(_, _, _, _, _)
UpdatedTimes(self, value, updates, mbsize, count) ==
    IF count = 0 THEN value
    ELSE UpdatedTimes(self, LearnerUpdate(self, value, updates, mbsize),
                      updates, mbsize, count - 1)

RestoredNothing(value, old_values) == value

\* for p, o in zip(learner.parameters, old_values): p.value = o
Restored(value, old_values) ==
    [p \in DOMAIN value |-> IF p <= Len(old_values) THEN old_values[p] ELSE value[p]]

\* The body of inspect_update and of inspect_user_learner_update: the
\* values returned and the values the parameters hold at the return.
Inspected(self, mbsize, count) ==
    LET old_values == self.value
        zeroed == [p \in DOMAIN self.value |-> 0 * self.value[p]]
        updates == [p \in DOMAIN self.value |-> [p |-> p, g |-> zeroed[p] + 1]]
        ret_values == UpdatedTimes(self, zeroed, updates, mbsize, count)
    IN [ret_values |-> ret_values, value |-> Restored(ret_values, old_values)]

\* The notebook on learners constructs no minibatch source.
NoSource ==
    /\ NoInstance
    /\ last = [InitCall(<<>>, "none") EXCEPT !.op = "none"]
    /\ observer = "learner"
    /\ obs = NoObs
    /\ other = NoOther

InitLearner ==
    /\ NoSource
    /\ \E n \in 1..MaxParams :
         \E parameters \in [1..n -> Shapes], value \in [1..n -> InitValues] :
            learner \in {MySgd(parameters, value), Sgd(parameters, value)}

\* The orders in which a dictionary over n parameters can have been filled.
Orders(n) == {o \in [1..n -> 1..n] : \A i, j \in 1..n : o[i] = o[j] => i = j}

\* learner.update(gradient_values, training_sample_count, sweep_end) as the
\* trainer calls it.
Update(gradient_values, training_sample_count) ==
    /\ learner.kind # "none"
    /\ learner.updates < MaxUpdates
    /\ learner' = [learner EXCEPT
          !.value = LearnerUpdate(learner, learner.value, gradient_values,
                                  training_sample_count),
          !.updates = @ + 1,
          !.call = [op |-> "update", pre |-> learner.value,
                    items |-> gradient_values,
                    sample_count |-> training_sample_count,
                    count |-> 1, ret_values |-> <<>>]]
    /\ UNCHANGED <<own, other>>

\* inspect_update(learner, mbsize, count) on a built-in learner.
InspectUpdate(mbsize, count) ==
    /\ learner.kind = "sgd"
    /\ LET done == Inspected(learner, mbsize, count)
       IN learner' = [learner EXCEPT
             !.value = done.value,
             !.call = [op |-> "inspect_update", pre |-> learner.value,
                       items |-> <<>>, sample_count |-> mbsize,
                       count |-> count, ret_values |-> done.ret_values]]
    /\ UNCHANGED <<own, other>>

\* inspect_user_learner_update(learner, mbsize, count) on a user learner.
InspectUserLearnerUpdate(mbsize, count) ==
    /\ learner.kind = "MySgd"
    /\ LET done == Inspected(learner, mbsize, count)
       IN learner' = [learner EXCEPT
             !.value = done.value,
             !.call = [op |-> "inspect_user_learner_update", pre |-> learner.value,
                       items |-> <<>>, sample_count |-> mbsize,
                       count |-> count, ret_values |-> done.ret_values]]
    /\ UNCHANGED <<own, other>>

NextLearner ==
    \/ \E o \in Orders(Len(learner.parameters)),
          g \in [1..Len(learner.parameters) -> Gradients],
          training_sample_count \in SampleCounts :
         Update([k \in 1..Len(learner.parameters) |-> [p |-> o[k], g |-> g[o[k]]]],
                training_sample_count)
    \/ \E mbsize \in SampleCounts, count \in 0..MaxCount : InspectUpdate(mbsize, count)
    \/ \E mbsize \in SampleCounts, count \in 0..MaxCount : InspectUserLearnerUpdate(mbsize, count)

SpecLearner == InitLearner /\ [][NextLearner]_vars

----------------------------------------------------------------------------
(* Properties.                                                             *)

\* The most recent completed call is a next_minibatch call that returned a
\* batch.
ReturnedBatch == pc = "idle" /\ last.op = "next_minibatch" /\ last.raised = "none"

\* The sequence identifiers assigned to worker_rank among number_of_workers.
Share(number_of_workers, worker_rank) ==
    {id \in Range(sequences) : id % number_of_workers = worker_rank}

\* C1: with a non-empty Sequence Index every next_minibatch call terminates:
\* no call reaches the loop head in a state the loop body leaves unchanged,
\* also when the sequence at the cursor belongs to another worker.
C1_EveryCallTerminates == sequences # <<>> => ~Spinning

\* C2: with one worker, from cursor 0 and a fixed request, the sequences
\* returned up to and including the first batch whose sweep flag is set are
\* every sequence identifier exactly once, in ascending order.
C2_SweepExactlyOnce ==
    (obs.phase = "done" /\ obs.number_of_workers = 1) =>
        /\ Len(obs.returned) = Cardinality(DOMAIN data)
        /\ Range(obs.returned) = DOMAIN data
        /\ \A i, j \in 1..Len(obs.returned) : i < j => obs.returned[i] < obs.returned[j]

\* C2 as amended: the sequences returned before the cursor wraps are every
\* identifier exactly once in ascending order; what the flagged batch holds
\* after the wrap restarts from the first identifier.
C2_SweepThenRestart ==
    (obs.phase = "done" /\ obs.number_of_workers = 1) =>
        /\ obs.pre_wrap = Cardinality(DOMAIN data)
        /\ {obs.returned[i] : i \in 1..obs.pre_wrap} = DOMAIN data
        /\ \A i, j \in 1..obs.pre_wrap : i < j => obs.returned[i] < obs.returned[j]
        /\ \A i \in (obs.pre_wrap + 1)..Len(obs.returned) :
               obs.returned[i] = obs.returned[((i - obs.pre_wrap - 1) % obs.pre_wrap) + 1]

C2_Witness ==
    /\ obs.phase = "done" /\ obs.number_of_workers = 1
    /\ Len(sequences) >= 2
    /\ Len(obs.returned) > Len(sequences)
    /\ pc = "idle"

\* C3: each rank, run from cursor 0 over one sweep, returns exactly its
\* share of the sequences, so that all ranks together return every sequence
\* exactly once: a rank never stops returning batches while a sequence of
\* its share is still missing, and at the end of its sweep it has returned
\* its share once each.
C3_PartitionComplete ==
    obs.phase \in {"run", "done"} =>
        /\ Spinning =>
              Share(obs.number_of_workers, obs.worker_rank) \subseteq Range(obs.returned)
        /\ obs.phase = "done" =>
              SubSeq(obs.returned, 1, obs.pre_wrap)
                  = sorted(Share(obs.number_of_workers, obs.worker_rank))

\* C4: a returned batch holds at most num_samples samples in the features
\* stream and at most num_samples samples in the labels stream.
C4_BatchWithinRequest ==
    ReturnedBatch =>
        /\ last.value.features.num_samples <= last.arg.num_samples
        /\ last.value.labels.num_samples <= last.arg.num_samples

C6_CursorInRange == 0 <= next_seq_idx /\ next_seq_idx <= Len(sequences)

\* C7: restore_from_checkpoint with a position outside [0, number of
\* sequences] fails with InvalidCheckpointError and leaves the cursor as it
\* was.
C7_RestoreRejectsOutOfRange ==
    (/\ pc = "idle" /\ last.op = "restore_from_checkpoint"
     /\ (last.arg.next_seq_idx < 0 \/ last.arg.next_seq_idx > Len(sequences)))
      => (last.raised = "InvalidCheckpointError" /\ next_seq_idx = last.before)

\* C8: restoring the checkpoint just captured leaves the cursor, and with it
\* everything a later next_minibatch call reads, as it was before the
\* capture.
C8_RoundTrip ==
    (mark.phase = "replay" /\ mark.log = <<>> /\ pc = "idle") => source = mark.pre

C8_Witness ==
    /\ mark.phase = "replay" /\ mark.log = <<>> /\ pc = "idle"
    /\ last.op = "restore_from_checkpoint"
    /\ next_seq_idx >= 1

\* C9: when a checkpoint is captured, calls with one request are made and
\* the checkpoint is restored, each call with that request after the restore
\* ends as the call made at the same rank after the capture did: same
\* exception or same batch, same cursor afterwards.
C9_ResumeIdentical ==
    (mark.phase = "replay" /\ mark.pos >= 1 /\ pc = "idle" /\ last.op = "next_minibatch") =>
        LET e == mark.log[mark.pos]
        IN /\ last.raised = e.raised
           /\ last.raised = "none" => last.value = e.value
           /\ next_seq_idx = e.after

C9_Witness ==
    /\ mark.phase = "replay" /\ mark.pos = 2 /\ pc = "idle"
    /\ last.op = "next_minibatch" /\ last.raised = "none"
    /\ mark.log[1].raised = "none"
    /\ mark.log[1].value # mark.log[2].value
    /\ mark.log[2].after # mark.state.next_seq_idx

\* C10: with one worker, the call after restore_from_checkpoint with
\* position p returns a batch that starts with the sequence at sorted
\* position p when 0 <= p < number of sequences; when p is the number of
\* sequences it starts with the first sequence and its sweep flag is set.
C10_ResumePosition ==
    (/\ pc = "idle" /\ last.op = "next_minibatch"
     /\ last.after.op = "restore_from_checkpoint"
     /\ last.arg.number_of_workers = 1
     /\ sequences # <<>>) =>
        LET p == last.after.arg.next_seq_idx
        IN /\ (0 <= p /\ p < Len(sequences)) =>
                 /\ last.raised = "none"
                 /\ last.seq_ids[1] = sequences[p + 1]
           /\ p = Len(sequences) =>
                 /\ last.raised = "none"
                 /\ last.seq_ids[1] = sequences[1]
                 /\ last.value.features.sweep_end
                 /\ last.value.labels.sweep_end

C10_Witness ==
    /\ ReturnedBatch
    /\ last.after.op = "restore_from_checkpoint"
    /\ last.arg.number_of_workers = 1
    /\ Len(sequences) >= 2
    /\ last.after.arg.next_seq_idx = Len(sequences)
    /\ Len(last.seq_ids) >= 2

\* C11: every sequence of a returned batch belongs to the worker the batch
\* was requested for: its identifier modulo number_of_workers is worker_rank.
C11_WorkerMembership ==
    ReturnedBatch =>
        \A i \in 1..Len(last.seq_ids) :
            last.seq_ids[i] % last.arg.number_of_workers = last.arg.worker_rank

\* A batch returned to rank 0 of two workers from an index that also holds
\* a sequence of rank 1.
C11_Witness ==
    /\ ReturnedBatch
    /\ last.arg.number_of_workers = 2
    /\ last.arg.worker_rank = 0
    /\ Len(last.seq_ids) >= 1
    /\ Len(sequences) >= 2

\* The first next_minibatch call of the scenario has returned.
FirstCallReturned ==
    /\ obs.phase = "scenario"
    /\ obs.calls = 1
    /\ ReturnedBatch

\* C12: on the toy data set the first call, asking one worker for 7
\* samples, returns sequences 0 and 1 with 7 feature samples, leaves the
\* sweep flag down and the cursor at 2.
C12_FirstBatchOfSeven ==
    FirstCallReturned =>
        /\ last.seq_ids = <<0, 1>>
        /\ last.value.features.value = <<data[0].features, data[1].features>>
        /\ last.value.features.num_samples = 7
        /\ last.value.features.num_sequences = 2
        /\ ~last.value.features.sweep_end
        /\ ~last.value.labels.sweep_end
        /\ next_seq_idx = 2

C12_Witness ==
    /\ FirstCallReturned
    /\ [id \in DOMAIN data |-> Len(data[id].features)] = (0 :> 3) @@ (1 :> 4) @@ (2 :> 3) @@ (3 :> 4)
    /\ \A id \in DOMAIN data : Len(data[id].labels) = 1
    /\ last.arg = [num_samples |-> 7, number_of_workers |-> 1, worker_rank |-> 0]
    /\ last.before = 0

\* The feature samples of the sequences before position idx of the index.
RECURSIVE SamplesBefore(_)
SamplesBefore(idx) ==
    IF idx <= 0 THEN 0
    ELSE SamplesBefore(idx - 1) + Len(data[sequences[idx]].features)

\* The feature samples of one pass over the index: 14 on the toy data set.
SamplesPerPass == SamplesBefore(Len(sequences))

\* The scenario is being followed and no call is in progress.
ScenarioAtRest ==
    /\ obs.phase = "scenario"
    /\ obs.calls >= 1
    /\ pc = "idle"

\* C13 as stated: in the scenario (7 samples once, then 20 again and again,
\* one worker) the number of calls that reported sweep_end is the number of
\* passes consumed, one per 14 feature samples, and the cursor then is
\* where the consumed samples place it in the pass, 0 after a whole pass.
C13_FlagOncePerPass ==
    ScenarioAtRest =>
        /\ obs.flags = obs.consumed \div SamplesPerPass
        /\ SamplesBefore(next_seq_idx) % SamplesPerPass = obs.consumed % SamplesPerPass

\* C13, amended: the cursor wraps once per 14 feature samples consumed and
\* is then where the consumed samples place it in the pass; sweep_end is
\* reported by exactly the calls during which the cursor wrapped, once by
\* a call that wraps twice.
C13_WrapOncePerPass ==
    ScenarioAtRest =>
        /\ obs.wraps = obs.consumed \div SamplesPerPass
        /\ SamplesBefore(next_seq_idx) % SamplesPerPass = obs.consumed % SamplesPerPass
        /\ obs.flags = obs.wrapped_calls
        /\ obs.flags <= obs.wraps

\* The third call of the scenario wrapped twice and raised one flag.
C13_Witness ==
    /\ ScenarioAtRest
    /\ SamplesPerPass = 14
    /\ obs.calls >= 3
    /\ obs.wraps > obs.flags
    /\ last.op = "next_minibatch"
    /\ last.seq_ids = <<3, 0, 1, 2, 3>>
    /\ next_seq_idx = 0

\* C14: get_checkpoint_state returns a snapshot that holds the cursor under
\* 'next_seq_idx' and nothing else, and leaves the cursor, the index, the
\* descriptors and the dimensions as they were.
C14_CaptureOnlyReads ==
    [][last'.op = "get_checkpoint_state" =>
          /\ DOMAIN last'.value = {"next_seq_idx"}
          /\ last'.value.next_seq_idx = next_seq_idx
          /\ source' = source
          /\ pc' = pc
          /\ frame' = frame]_vars

\* A capture between two next_minibatch calls, the cursor inside the index.
C14_Witness ==
    /\ pc = "idle"
    /\ last.op = "get_checkpoint_state"
    /\ last.value = [next_seq_idx |-> next_seq_idx]
    /\ 0 < next_seq_idx
    /\ next_seq_idx < Len(sequences)

\* C15: a next_minibatch call, from its entry to its return, changes nothing
\* of the source but the cursor: the index, the identifier list, the two
\* descriptors and the dimensions stay as they are.
C15_CallMovesOnlyCursor ==
    [][(pc = "loop" \/ pc' = "loop") =>
          /\ data' = data
          /\ sequences' = sequences
          /\ fsi' = fsi
          /\ lsi' = lsi
          /\ f_dim' = f_dim
          /\ l_dim' = l_dim]_vars

\* A call that returned a batch and moved the cursor.
C15_Witness ==
    /\ ReturnedBatch
    /\ next_seq_idx # last.before
    /\ Len(last.seq_ids) >= 2

\* C16 as stated: a next_minibatch call fails exactly when the index is
\* empty.
C16_FailsOnlyWhenEmpty ==
    (pc = "idle" /\ last.op = "next_minibatch") =>
        (last.raised # "none" <=> sequences = <<>>)

\* C19: stream_infos returns the features descriptor and the labels
\* descriptor, in this order, whatever calls came before, and changes
\* nothing of the source.
C19_StreamInfosFixed ==
    [][last'.op = "stream_infos" =>
          /\ last'.value.list = <<StreamInformation("features", 0, "sparse", <<f_dim>>),
                                   StreamInformation("labels", 1, "dense", <<l_dim>>)>>
          /\ source' = source
          /\ pc' = pc
          /\ frame' = frame]_vars

\* stream_infos called after batches moved the cursor.
C19_Witness ==
    /\ pc = "idle"
    /\ last.op = "stream_infos"
    /\ last.value.list[1].name = "features"
    /\ last.before >= 1

\* The format of a line: an integer id, the field 'x index:1' and, if a
\* second field is there, the field 'y' with l_dim numbers; no third field.
WellFormed(line) ==
    /\ IsNumber(line.seq_id)
    /\ Len(line.fields) \in {1, 2}
    /\ Len(line.fields[1]) = 2
    /\ line.fields[1][1] = Txt("x")
    /\ line.fields[1][2].isint
    /\ line.fields[1][2].rest = ":1"
    /\ Len(line.fields) = 2 =>
          /\ Len(line.fields[2]) = l_dim + 1
          /\ line.fields[2][1] = Txt("y")
          /\ \A i \in 2..Len(line.fields[2]) : IsNumber(line.fields[2][i])

\* C17 as stated: when a non-blank line of the text is not in the format,
\* __init__ raises and leaves no instance.
C17_MalformedLineRejected ==
    (/\ last.op = "__init__"
     /\ \E i \in 1..Len(last.arg.sample_data) :
            last.arg.sample_data[i] # Blank /\ ~WellFormed(last.arg.sample_data[i]))
        => (last.raised # "none" /\ pc = "failed")

\* C20: right after a construction that succeeded the cursor is 0, the
\* identifier list holds the identifiers of the ingested lines, each once,
\* in ascending order, and the descriptors are features (sparse, id 0,
\* shape (f_dim,)) and labels (dense, id 1, shape (l_dim,)).
C20_AfterConstruction ==
    (last.op = "__init__" /\ last.raised = "none") =>
        /\ next_seq_idx = 0
        /\ Range(sequences) =
              {last.arg.sample_data[i].seq_id.n :
                 i \in {j \in 1..Len(last.arg.sample_data) : last.arg.sample_data[j] # Blank}}
        /\ \A i, j \in 1..Len(sequences) : i < j => sequences[i] < sequences[j]
        /\ fsi = [name |-> "features", stream_id |-> 0, storage |-> "sparse",
                  shape |-> <<f_dim>>]
        /\ lsi = [name |-> "labels", stream_id |-> 1, storage |-> "dense",
                  shape |-> <<l_dim>>]
        /\ fsi.stream_id # lsi.stream_id

\* A source constructed from a text that names sequence 1 before sequence 0.
C20_Witness ==
    /\ last.op = "__init__"
    /\ last.raised = "none"
    /\ pc = "idle"
    /\ Len(last.arg.sample_data) = 2
    /\ last.arg.sample_data[1].seq_id = Num(1)
    /\ last.arg.sample_data[2].seq_id = Num(0)
    /\ sequences = <<0, 1>>

\* C18: whatever calls the other worker makes on its instance and however
\* they fall between the steps of this worker's calls, every step either
\* leaves this worker's instance and what its calls returned as they are,
\* or is a step of this worker's own call as it would be taken alone, which
\* leaves the other instance as it is.
C18_AsIfAlone == [][NextExample]_own

\* This worker is in the middle of a call, one sequence in its batch, and
\* the other worker's cursor has moved to another position.
C18_Witness ==
    /\ pc = "loop"
    /\ frame.seq_ids # <<>>
    /\ other.active
    /\ other.next_seq_idx >= 1
    /\ other.next_seq_idx # next_seq_idx

\* C21 as stated: a trip through the loop that looked at a sequence and
\* went back to the loop head has moved the cursor past that sequence,
\* whether the sequence was added to the batch or skipped as another
\* worker's.
C21_SkipAdvances ==
    (pc = "loop" /\ frame.examined # -1) => next_seq_idx = frame.examined + 1

\* C22 as stated: whatever the identifiers are, a call of one worker that
\* starts at position p of the identifier list reads the identifier at
\* index p of the list, without IndexError, so that a batch it returns
\* starts with that sequence.
C22_PositionMapping ==
    (/\ pc = "idle"
     /\ last.op = "next_minibatch"
     /\ last.arg.number_of_workers = 1
     /\ 0 <= last.before
     /\ last.before < Len(sequences))
        => /\ last.raised # "IndexError"
           /\ last.raised = "none" => last.seq_ids[1] = sequences[last.before + 1]

\* A call of one worker returned a batch, having started at a position of
\* a list that is not empty, or at its end.
BatchOfOneWorker ==
    /\ ReturnedBatch
    /\ last.arg.number_of_workers = 1
    /\ sequences # <<>>
    /\ 0 <= last.before
    /\ last.before <= Len(sequences)

\* C23: with one worker the batch is the run of sequences that starts at
\* the position the call found the cursor at and goes round the sorted
\* list, and the cursor is left at the start position plus the number of
\* sequences returned, modulo the length of the list: on the sequence that
\* would have overflowed, with which the next batch therefore starts.
C23_NoSequenceLost ==
    BatchOfOneWorker =>
        /\ \A i \in 1..Len(last.seq_ids) :
               last.seq_ids[i] = sequences[((last.before + i - 1) % Len(sequences)) + 1]
        /\ 0 <= next_seq_idx
        /\ next_seq_idx <= Len(sequences)
        /\ next_seq_idx % Len(sequences)
              = (last.before + Len(last.seq_ids)) % Len(sequences)

\* A batch that stopped at a sequence that would have overflowed the
\* request, after a wrap.
C23_Witness ==
    /\ BatchOfOneWorker
    /\ Len(sequences) >= 3
    /\ Len(last.seq_ids) >= 2
    /\ last.before >= 1
    /\ next_seq_idx < last.before
    /\ next_seq_idx >= 1
    /\ last.value.features.num_samples + Len(data[sequences[next_seq_idx + 1]].features)
          > last.arg.num_samples

C25_BudgetBeyondFirst ==
    ReturnedBatch =>
        /\ Len(last.seq_ids) >= 2 =>
              /\ last.value.features.num_samples <= last.arg.num_samples
              /\ last.value.labels.num_samples <= last.arg.num_samples
        /\ (\/ last.value.features.num_samples > last.arg.num_samples
            \/ last.value.labels.num_samples > last.arg.num_samples) =>
              /\ Len(last.seq_ids) = 1
              /\ Max(Len(data[last.seq_ids[1]].features),
                     Len(data[last.seq_ids[1]].labels)) > last.arg.num_samples

\* A batch of two sequences that fills the request exactly.
C25_Witness ==
    /\ ReturnedBatch
    /\ Len(last.seq_ids) = 2
    /\ last.value.features.num_samples = last.arg.num_samples
    /\ Len(data[last.seq_ids[2]].features) >= 2

\* The feature tokens, and the label records, of the sequences ids.
RECURSIVE FeatureTokens(_)
FeatureTokens(ids) ==
    IF ids = <<>> THEN 0
    ELSE Len(data[Head(ids)].features) + FeatureTokens(Tail(ids))

RECURSIVE LabelRecords(_)
LabelRecords(ids) ==
    IF ids = <<>> THEN 0
    ELSE Len(data[Head(ids)].labels) + LabelRecords(Tail(ids))

\* C26: in a returned batch the feature sample count is the sum of the
\* feature tokens of the sequences in it, the label sample count the sum
\* of their label records, the sequence count of either stream the number
\* of sequences in it, the payloads hold one entry per sequence, and both
\* streams carry the same sweep flag.
C26_BatchAccounting ==
    ReturnedBatch =>
        /\ last.value.features.num_samples = FeatureTokens(last.seq_ids)
        /\ last.value.labels.num_samples = LabelRecords(last.seq_ids)
        /\ last.value.features.num_sequences = Len(last.seq_ids)
        /\ last.value.labels.num_sequences = Len(last.seq_ids)
        /\ last.value.features.value
              = [i \in 1..Len(last.seq_ids) |-> data[last.seq_ids[i]].features]
        /\ last.value.labels.value
              = [i \in 1..Len(last.seq_ids) |-> data[last.seq_ids[i]].labels]
        /\ last.value.features.sweep_end = last.value.labels.sweep_end

\* A batch of sequences of different lengths, more feature samples than
\* label samples.
C26_Witness ==
    /\ ReturnedBatch
    /\ Len(last.seq_ids) >= 2
    /\ Len(data[last.seq_ids[1]].features) # Len(data[last.seq_ids[2]].features)
    /\ last.value.features.num_samples > last.value.labels.num_samples

RECURSIVE TokensOf(_, _)
TokensOf(text, id) ==
    IF text = <<>> THEN <<>>
    ELSE IF Head(text) # Blank /\ Head(text).seq_id.n = id
    THEN <<Head(text).fields[1][2].n>> \o TokensOf(Tail(text), id)
    ELSE TokensOf(Tail(text), id)

\* The identifiers the lines of text name.
IdsOf(text) == {text[i].seq_id.n : i \in {j \in 1..Len(text) : text[j] # Blank}}

\* After a construction that succeeded the index holds one record per
\* identifier named in the text, with the feature indices of all its
\* lines, adjacent or not, in line order.
MergedById ==
    (last.op = "__init__" /\ last.raised = "none") =>
        /\ DOMAIN data = IdsOf(last.arg.sample_data)
        /\ \A id \in DOMAIN data :
               data[id].features = TokensOf(last.arg.sample_data, id)

\* The identifier list names every record once.
IdsUnique ==
    /\ Range(sequences) = DOMAIN data
    /\ Len(sequences) = Cardinality(DOMAIN data)

\* C28: ingestion builds one record per distinct identifier, merging all
\* lines of an identifier in line order, so the identifiers of the index
\* are unique; and no call changes the set of identifiers afterwards.
C28_OneRecordPerId ==
    /\ [](MergedById /\ IdsUnique)
    /\ [][DOMAIN data' = DOMAIN data /\ sequences' = sequences]_vars

\* A source constructed from a text whose lines for sequence 0 are
\* separated by a line of sequence 1.
C28_Witness ==
    /\ last.op = "__init__"
    /\ last.raised = "none"
    /\ Len(last.arg.sample_data) = 3
    /\ last.arg.sample_data[1].seq_id = Num(0)
    /\ last.arg.sample_data[2].seq_id = Num(1)
    /\ last.arg.sample_data[3].seq_id = Num(0)
    /\ data[0].features = <<1, 0>>
    /\ sequences = <<0, 1>>

\* The most recent call on the learner is an update of MySgd.
MySgdUpdated == learner.kind = "MySgd" /\ learner.call.op = "update"

\* C29: after MySgd.update returns, every parameter p of gradient_values
\* holds p's own value before the call minus (lr / training_sample_count)
\* times p's own gradient, whatever the shapes of the parameters are.
C29_PlainSgdPerParameter ==
    MySgdUpdated =>
        \A k \in 1..Len(learner.call.items) :
            LET p == learner.call.items[k].p
            IN learner.value[p] =
                  learner.call.pre[p] - Eta(learner.call.sample_count) * learner.call.items[k].g

\* The most recent call on the learner is one of the two inspect functions.
InspectReturned == learner.kind # "none" /\ learner.call.op \in {"inspect_update", "inspect_user_learner_update"}

\* C30: after inspect_update or inspect_user_learner_update returns, every
\* parameter of the learner holds the value it had before the call, for
\* every count from 0 on.
C30_InspectLeavesLearner ==
    InspectReturned =>
        /\ Len(learner.value) = Len(learner.call.pre)
        /\ \A p \in 1..Len(learner.value) : learner.value[p] = learner.call.pre[p]

\* C30 witness: a user learner on two parameters of different nonzero
\* values was inspected with two updates, which the values returned show.
C30_Witness ==
    /\ InspectReturned
    /\ learner.call.op = "inspect_user_learner_update"
    /\ learner.call.count >= 2
    /\ Len(learner.value) >= 2
    /\ learner.call.pre[1] # learner.call.pre[2]
    /\ \A p \in 1..Len(learner.value) :
          learner.call.pre[p] # 0 /\ learner.call.ret_values[p] < 0

====
